---- MODULE Spec2Model ----
(***************************************************************************)
(* Model of MAVProxy/modules/mavproxy_chat/chat_gemini.py (class           *)
(* ChatGemini): the send lock, the connection check, the recursive         *)
(* response / function-call handling, save_api_key / initialize_model and  *)
(* the wakeup poller thread.                                               *)
(*                                                                         *)
(* Granularity: one step per blocking point of a thread (lock acquisition, *)
(* each backend call and the handling of what it returned up to the next   *)
(* backend call).  The two sinks (status_cb, reply_cb), the directives     *)
(* read, the handler invocations and the backend calls are observed        *)
(* through `ev`, the sequence of events produced by the most recent step.  *)
(***************************************************************************)
EXTENDS Integers, Sequences, FiniteSets, TLC

\* ---------------------------------------------------------------- bounds
MaxParts    == 2   \* parts the backend may emit over one exchange
MaxTimers   == 1   \* wakeup timers inserted over a run

\* ------------------------------------------------------------- constants
Threads   == {"fg", "poller"}       \* callers of send_to_assistant
Poller    == "poller"               \* self.thread (check_wakeup_timers)
NoThread  == "<nobody>"
NoKey     == "<None>"               \* self.api_key = None
Keys      == {"", "K"}              \* contents of the credential file / new keys
Texts     == {"hello"}              \* what a foreground caller sends
Messages  == {"m"}                  \* wakeup timer messages
Times     == {0, 1}                 \* values of time.time() and of timer["time"]

\* self.model / self.chat: None, or the object initialize_model created last;
\* an object initialize_model has since replaced is Replaced
None      == "None"
Live      == "live"
Replaced  == "replaced"

\* define_tools: the tool table declared to the model
ToolNames ==
    {"get_current_datetime", "get_vehicle_type", "get_vehicle_state",
     "get_parameter", "set_parameter", "set_vehicle_mode"}

\* a supported list that also names the other methods of the session
supported_funcs_Methods ==
    {"get_current_datetime", "get_vehicle_type", "get_vehicle_state",
     "get_parameter", "set_parameter", "save_api_key", "send_to_assistant",
     "initialize_model", "check_wakeup_timers"}

\* handle_function_call: supported_funcs
supported_funcs ==
    {"get_current_datetime", "get_vehicle_type", "get_vehicle_state",
     "get_parameter", "set_parameter"}

\* names for which getattr(self, name, None) is not None
Attributes ==
    ToolNames \cup {"save_api_key", "send_to_assistant", "initialize_model",
                    "check_wakeup_timers", "send_lock", "api_key"}

\* the non-empty names the backend is taken to put in a function-call
\* directive: declared tools (on and off the supported list), other methods
\* of the session object, and a name that is no attribute
CallNames ==
    {"get_vehicle_type", "get_parameter", "set_parameter", "set_vehicle_mode",
     "save_api_key", "send_to_assistant", "initialize_model",
     "check_wakeup_timers", "nonexistent"}

\* ---------------------------------------------------------------- state
VARIABLES
    api_key,          \* self.api_key
    model,            \* self.model
    chat,             \* self.chat
    send_lock,        \* the thread holding self.send_lock, or NoThread
    wakeup_schedule,  \* self.wakeup_schedule: sequence of timers
    clock,            \* time.time()
    nextTimer,        \* identity given to the next timer inserted
    pc,               \* position of each thread
    text,             \* send_to_assistant: the argument `text`
    stack,            \* activations of handle_gemini_response, innermost first
    budget,           \* parts the backend may still emit in the exchange
    now,              \* check_wakeup_timers: now
    snapshot,         \* check_wakeup_timers: list(self.wakeup_schedule), rest
    sent,             \* per timer identity: send_to_assistant calls made for it
    removed,          \* identities of the timers removed from the schedule
    exChat,           \* per thread: chat object that took the exchange's text
    ev,               \* events produced by the last step
    probed,           \* check_connection: a probe of the backend has succeeded
    mav_param,        \* self.mpstate.mav_param: parameter name -> value
    result,           \* the last call of a tool handler and what it produced
    loaded,           \* per window module: not loaded, loaded or unloaded
    window_process,   \* per window module: self.window_process (0 for None)
    temp_dir,         \* per window module: self.temp_dir (0 for None)
    procs,            \* per window module: the processes it started, by status
    dirs,             \* per window module: the directories it made, existing or not
    frame,            \* the Llama chat frame that was constructed, if any
    chat_history,     \* the lines of the frame's chat history control
    status_text,      \* the value of the frame's status control
    threads,          \* the send_to_llama threads started, by position
    posted            \* the calls handed to wx.CallAfter and not yet run

vars == <<api_key, model, chat, send_lock, wakeup_schedule, clock, nextTimer,
          pc, text, stack, budget, now, snapshot, sent, removed, exChat, ev,
          probed, mav_param, result, loaded, window_process, temp_dir, procs,
          dirs, frame, chat_history, status_text, threads, posted>>

\* the state of the chat session and its poller
chatVars == <<api_key, model, chat, send_lock, wakeup_schedule, clock,
              nextTimer, pc, text, stack, budget, now, snapshot, sent,
              removed, exChat, ev, probed>>

\* the state seen and produced by the tool handlers
toolVars == <<mav_param, result>>

\* the state of the welcome and custom_chat modules and of their windows
windowVars == <<loaded, window_process, temp_dir, procs, dirs>>

\* the state of the Llama chat frame and of its requests
llamaVars == <<frame, chat_history, status_text, threads, posted>>

\* the state of the modules that show windows
guiVars == <<windowVars, llamaVars>>

sessionVars == <<api_key, model, chat>>
timerVars   == <<wakeup_schedule, clock, nextTimer, now, snapshot, sent, removed>>
callVars    == <<stack, budget>>

\* ---------------------------------------------------------------- events
Event(kind, t, arg) == [ev |-> kind, by |-> t, arg |-> arg]

\* send_reply / send_status (print output is not observed)
Reply(t, s)   == Event("reply", t, s)
Status(t, s)  == Event("status", t, s)
\* func_name = function_call.name
Directive(t, name) == Event("directive", t, name)
\* func(arguments) for the handler registered under `name`
Invoke(t, name) == Event("invoke", t, name)
\* the handler registered under `name` raised
Raised(t, name) == Event("raise", t, name)
\* initialize_model, self.model.generate_content, self.chat.send_message
InitEv(t)       == Event("init", t, "")
ProbeEv(t)      == Event("probe", t, "Test connection")
UserMsg(t, s)   == Event("user", t, s)
ResultMsg(t, s) == Event("result", t, s)
\* save_api_key returned r
ReturnEv(t, r)  == Event("return", t, r)
\* the backend call of kind k raised
Fault(t, k)     == Event("fault", t, k)

BackendKinds == {"probe", "user", "result"}

\* a failure text that names no connection
ConnFailed_Generic == "Error"

\* send_to_assistant: the reply when check_connection returns False
ConnFailed == "chat: failed to connect to Gemini API"
NoResponse == "No response received from Gemini"

\* ------------------------------------------------------- pure functions
\* values a handler returns: a string, or a dict given by its JSON text
Str(s)  == [str |-> TRUE, v |-> s]
Obj(s)  == [str |-> FALSE, v |-> s]

\* json.dumps(output)
JsonDumps(o) == IF o.str THEN "\"" \o o.v \o "\"" ELSE o.v

FailedMessage_Bare(name, msg) == Str("Error: " \o msg)

\* handle_function_call: the except branch around func(arguments)
FailedMessage(name, msg) == Str(name \o ": function call failed - " \o msg)

\* handle_function_call: the else branch
Unrecognized(name) == Str("Unrecognized function call: " \o name)

\* handle_function_call: the text of the continuation message
ContinuationText(name, o) ==
    "Function result for " \o name \o ": " \o JsonDumps(o)

\* what the method `name` returns when called with the directive's arguments
HandlerReturns(name) ==
    CASE name = "get_current_datetime" -> {Str("Thursday, November 05, 2026 09:00:00 AM")}
      [] name = "get_vehicle_type"     -> {Obj("{\"vehicle_type\": \"Copter\"}")}
      [] name = "get_vehicle_state"    -> {Obj("{\"armed\": false, \"mode\": 0}")}
      [] name = "get_parameter"        -> {Str("get_parameter: name not specified")}
      [] name = "set_parameter"        -> {Str("set_parameter: parameter name not specified")}
      [] name = "set_vehicle_mode"     -> {Str("set_vehicle_mode: mode not specified")}
      [] OTHER                         -> {Str("None")}

\* the exception messages a handler may raise with
HandlerRaises(name) == {"link down"}

Dispatched_AnyAttribute(name) == IF name \in Attributes THEN name ELSE ""

\* handle_function_call, lines 291-305: the handler invoked (or "" for none)
\* for a directive named `name`
Dispatched(name) ==
    IF name \in supported_funcs /\ name \in Attributes THEN name ELSE ""

\* a dispatch that calls the handler again after it raised
Outputs_Retried(t, name) ==
    LET func == Dispatched(name) IN
    IF func # ""
    THEN {[output |-> o, events |-> <<Invoke(t, func)>>] : o \in HandlerReturns(func)}
         \cup {[output |-> o,
                events |-> <<Invoke(t, func), Raised(t, func), Invoke(t, func)>>] :
                    o \in HandlerReturns(func)}
    ELSE {[output |-> Unrecognized(name), events |-> <<>>]}

\* handle_function_call, lines 291-305: the outputs a directive named `name`
\* may end with, each with the events of the dispatch
Outputs(t, name) ==
    LET func == Dispatched(name) IN
    IF func # ""
    THEN {[output |-> o, events |-> <<Invoke(t, func)>>] : o \in HandlerReturns(func)}
         \cup {[output |-> FailedMessage(name, m),
                events |-> <<Invoke(t, func), Raised(t, func)>>] :
                    m \in HandlerRaises(func)}
    ELSE {[output |-> Unrecognized(name), events |-> <<>>]}

\* a response part: its text ("" for none) and its function_call: absent, a
\* directive with an empty name, or a directive with a name
Part(txt, fc) == [text |-> txt, fc |-> fc]
Parts == {Part("hi", "absent"), Part("", "unnamed"), Part("", "named")}

\* a response: whether it has candidates, and the parts of their content
NoCandidates == [cand |-> FALSE, parts |-> <<>>]
PartSeqs(n)  == UNION {[1..k -> Parts] : k \in 0..n}

\* the responses a backend that may still emit b parts can return
Responses ==
    [b \in 0..MaxParts |->
        {NoCandidates} \cup {[cand |-> TRUE, parts |-> ps] : ps \in PartSeqs(b)}]

\* list.remove(x): drop the first element equal to x (dict equality compares
\* "time" and "message"; the identity is not part of the dict)
SameTimer(a, b) == a.time = b.time /\ a.message = b.message

\* the index of the last element equal to x, from i on
FirstIndex_Last(s, x, i) ==
    LET M == {j \in i..Len(s) : SameTimer(s[j], x)}
    IN  IF M = {} THEN 0 ELSE CHOOSE j \in M : \A k \in M : k <= j

RECURSIVE FirstIndex(_, _, _)
FirstIndex(s, x, i) ==
    IF i > Len(s) THEN 0
    ELSE IF SameTimer(s[i], x) THEN i ELSE FirstIndex(s, x, i + 1)

RemoveAt_Kept(s, i) == s

RemoveAt(s, i) == SubSeq(s, 1, i - 1) \o SubSeq(s, i + 1, Len(s))

\* "WAKEUP:" + wakeup_timer["message"]
WakeupText(w) == "WAKEUP:" \o w.message

\* an empty parameter dictionary
NoParams == [n \in {} |-> "0"]

\* no tool handler was called yet
NoCall == [func |-> "", arguments |-> [k \in {} |-> <<>>], kind |-> "none",
           items |-> <<>>, text |-> <<>>, calls |-> <<>>]

\* the modules that show a helper window
Modules == {"welcome", "custom_chat"}

\* no window module has been loaded
NoModules ==
    /\ loaded = [m \in Modules |-> "no"]
    /\ window_process = [m \in Modules |-> 0]
    /\ temp_dir = [m \in Modules |-> 0]
    /\ procs = [m \in Modules |-> <<>>]
    /\ dirs = [m \in Modules |-> <<>>]

\* no Llama chat frame has been constructed
NoFrame ==
    /\ frame = "none"
    /\ chat_history = <<>>
    /\ status_text = ""
    /\ threads = <<>>
    /\ posted = <<>>

\* ------------------------------------------------------------------ init
\* ChatGemini.__init__: the poller thread is started, load_api_key reads the
\* credential file (absent, empty or a key); its initialize_model fails as
\* self.tools is not yet set, and model / chat are then set to None
Init ==
    /\ api_key \in {NoKey} \cup Keys
    /\ model = None
    /\ chat = None
    /\ send_lock = NoThread
    /\ wakeup_schedule = <<>>
    /\ clock = 0
    /\ nextTimer = 1
    /\ pc = [t \in Threads |-> IF t = Poller THEN "sleep" ELSE "idle"]
    /\ text = [t \in Threads |-> ""]
    /\ stack = [t \in Threads |-> <<>>]
    /\ budget = [t \in Threads |-> 0]
    /\ now = 0
    /\ snapshot = <<>>
    /\ sent = [i \in 1..MaxTimers |-> 0]
    /\ removed = {}
    /\ exChat = [t \in Threads |-> None]
    /\ ev = <<>>
    /\ probed = FALSE
    /\ mav_param = NoParams
    /\ result = NoCall
    /\ NoModules
    /\ NoFrame

\* --------------------------------------------------- send_to_assistant
\* where send_to_assistant returns to: the poller's loop body, or the caller
\* a return of the poller past the removal of the timer
ReturnPc_PastRemove(t) == IF t = Poller THEN "iter" ELSE "idle"

ReturnPc(t) == IF t = Poller THEN "remove" ELSE "idle"

Return_LockKept(t, events) ==
    /\ send_lock' = IF \E i \in 1..Len(events) : events[i].arg = "Ready"
                    THEN NoThread ELSE send_lock
    /\ pc' = [pc EXCEPT ![t] = ReturnPc(t)]
    /\ text' = [text EXCEPT ![t] = ""]
    /\ stack' = [stack EXCEPT ![t] = <<>>]
    /\ budget' = [budget EXCEPT ![t] = 0]
    /\ exChat' = [exChat EXCEPT ![t] = None]
    /\ ev' = events

\* leaving the `with self.send_lock:` block and returning
Return(t, events) ==
    /\ send_lock' = IF send_lock = t THEN NoThread ELSE send_lock
    /\ pc' = [pc EXCEPT ![t] = ReturnPc(t)]
    /\ text' = [text EXCEPT ![t] = ""]
    /\ stack' = [stack EXCEPT ![t] = <<>>]
    /\ budget' = [budget EXCEPT ![t] = 0]
    /\ exChat' = [exChat EXCEPT ![t] = None]
    /\ ev' = events

\* a foreground caller calls send_to_assistant(txt)
send_to_assistant(t, txt) ==
    /\ t # Poller
    /\ pc[t] = "idle"
    /\ pc' = [pc EXCEPT ![t] = "acquire"]
    /\ text' = [text EXCEPT ![t] = txt]
    /\ ev' = <<>>
    /\ UNCHANGED <<sessionVars, send_lock, timerVars, callVars, exChat>>
    /\ UNCHANGED <<toolVars, guiVars>>
    /\ UNCHANGED probed

LockFree_Ignored(t) == TRUE

\* the guard under which `with self.send_lock:` is entered
LockFree(t) == send_lock = NoThread

\* with self.send_lock: (blocks while another thread holds the lock)
Acquire(t) ==
    /\ pc[t] = "acquire"
    /\ LockFree(t)
    /\ send_lock' = t
    /\ pc' = [pc EXCEPT ![t] = "check"]
    /\ budget' = [budget EXCEPT ![t] = MaxParts]
    /\ ev' = <<>>
    /\ UNCHANGED <<sessionVars, timerVars, text, stack, exChat>>
    /\ UNCHANGED <<toolVars, guiVars>>
    /\ UNCHANGED probed

\* initialize_model: "ok" (a new model and its chat session replace the old
\* ones, lines 99-103) or "fail" (genai.configure or the GenerativeModel
\* constructor raised, nothing is assigned)
InitOutcomes == {"ok", "fail"}

\* the chat objects the exchanges hold, once self.chat is a new object
Superseded == [t \in Threads |-> IF exChat[t] = None THEN None ELSE Replaced]

initialize_model(outcome) ==
    /\ model' = IF outcome = "ok" THEN Live ELSE model
    /\ chat' = IF outcome = "ok" THEN Live ELSE chat
    /\ exChat' = IF outcome = "ok" THEN Superseded ELSE exChat

KeyMissing_NoneOnly == api_key = NoKey

\* whether check_connection stops at `if not self.api_key`
KeyMissing == api_key = NoKey \/ api_key = ""

\* check_connection up to the probe, and the failure branch of
\* send_to_assistant when it returns False
check_connection(t) ==
    /\ pc[t] = "check"
    /\ \/ /\ KeyMissing
          /\ Return(t, <<Reply(t, ConnFailed)>>)
          /\ UNCHANGED <<sessionVars, timerVars>>
       \/ /\ ~KeyMissing
          /\ model # None
          /\ pc' = [pc EXCEPT ![t] = "probe"]
          /\ ev' = <<>>
          /\ UNCHANGED <<sessionVars, send_lock, timerVars, text, callVars, exChat>>
       \/ /\ ~KeyMissing
          /\ model = None
          /\ \/ /\ initialize_model("ok")
                /\ pc' = [pc EXCEPT ![t] = "probe"]
                /\ ev' = <<InitEv(t)>>
                /\ UNCHANGED <<send_lock, text, callVars>>
             \/ /\ Return(t, <<InitEv(t), Reply(t, ConnFailed)>>)
                /\ UNCHANGED <<model, chat>>
          /\ UNCHANGED <<api_key, timerVars>>
    /\ UNCHANGED <<toolVars, guiVars>>
    /\ UNCHANGED probed

\* check_connection: self.model.generate_content("Test connection")
Probe(t) ==
    /\ pc[t] = "probe"
    /\ \E ok \in BOOLEAN :
          IF ok
          THEN /\ pc' = [pc EXCEPT ![t] = "send"]
               /\ ev' = <<ProbeEv(t), Status(t, "Generating response...")>>
               /\ probed' = TRUE
               /\ UNCHANGED <<send_lock, text, callVars, exChat>>
          ELSE /\ Return(t, <<ProbeEv(t), Fault(t, "probe"), Reply(t, ConnFailed)>>)
               /\ UNCHANGED probed
    /\ UNCHANGED <<sessionVars, timerVars>>
    /\ UNCHANGED <<toolVars, guiVars>>

\* self.chat.send_message(text) is called
SendMessage(t) ==
    /\ pc[t] = "send"
    /\ pc' = [pc EXCEPT ![t] = "await"]
    /\ exChat' = [exChat EXCEPT ![t] = chat]
    /\ ev' = <<UserMsg(t, text[t])>>
    /\ UNCHANGED <<sessionVars, send_lock, timerVars, text, callVars>>
    /\ UNCHANGED <<toolVars, guiVars>>
    /\ UNCHANGED probed

\* ------------------------------------------------ handle_gemini_response
\* handle_gemini_response returns: to handle_function_call (which returns
\* to the loop of the enclosing activation), or out of send_to_assistant
PopFrame(t, events) ==
    IF Len(stack[t]) = 1
    THEN Return(t, events)
    ELSE /\ stack' = [stack EXCEPT ![t] = Tail(@)]
         /\ ev' = events
         /\ UNCHANGED <<send_lock, pc, text, budget, exChat>>

\* the events of the text branch for part p
TextEvents(t, p) == IF p.text # "" THEN <<Reply(t, p.text)>> ELSE <<>>

NextPart_Stuck(t) == stack

\* the activations once the innermost one goes on with the parts after the
\* current one
NextPart(t) == [stack EXCEPT ![t][1].parts = Tail(@)]

\* handle_function_call for a directive named `name`, up to the call of
\* self.chat.send_message: the handler it reaches is called (it returns or
\* raises) or the directive is answered as unrecognized, and the result is
\* sent
handle_function_call(t, p, name) ==
    \E d \in Outputs(t, name) :
       /\ ev' = TextEvents(t, p) \o <<Directive(t, name)>> \o d.events
                   \o <<ResultMsg(t, ContinuationText(name, d.output))>>
       /\ pc' = [pc EXCEPT ![t] = "await"]

\* an empty name answered to the backend as an unrecognized call
EmptyName_Answered(t, p) ==
    /\ ev' = TextEvents(t, p) \o <<Directive(t, "")>>
                \o <<ResultMsg(t, ContinuationText("", Unrecognized("")))>>
    /\ pc' = [pc EXCEPT ![t] = "await"]

\* handle_function_call for a directive without a name, lines 270-273:
\* it returns at once
EmptyName(t, p) ==
    /\ ev' = TextEvents(t, p) \o <<Directive(t, "")>>
    /\ UNCHANGED pc

\* one step of handle_gemini_response on the innermost activation: the
\* candidates check, one part of the loop, or the final status
handle_gemini_response(t) ==
    /\ pc[t] = "handle"
    /\ LET f == Head(stack[t]) IN
       \/ /\ ~f.cand
          /\ PopFrame(t, <<Reply(t, NoResponse)>>)
       \/ /\ f.cand
          /\ f.parts = <<>>
          /\ PopFrame(t, <<Status(t, "Ready")>>)
       \/ /\ f.cand
          /\ f.parts # <<>>
          /\ LET p == Head(f.parts) IN
             CASE p.fc = "named" ->
                     \E name \in CallNames : handle_function_call(t, p, name)
               [] p.fc = "unnamed" -> EmptyName(t, p)
               [] OTHER ->
                     /\ ev' = TextEvents(t, p)
                     /\ UNCHANGED pc
          /\ stack' = NextPart(t)
          /\ UNCHANGED <<send_lock, text, budget, exChat>>
    /\ UNCHANGED <<sessionVars, timerVars>>
    /\ UNCHANGED <<toolVars, guiVars>>
    /\ UNCHANGED probed

\* an activation of handle_gemini_response(response): the argument, whether
\* it has candidates, and the parts the loop has still to handle
Activation(r) == [cand |-> r.cand, parts |-> r.parts, response |-> r]

\* what the except branch of send_to_assistant emits
SendFault(t) == <<Status(t, "Error: backend fault")>>

\* self.chat.send_message returns a response, which is handed to
\* handle_gemini_response, or raises: in send_to_assistant the fault goes to
\* the except branch, in handle_function_call it is only printed
Answer(t) ==
    /\ pc[t] = "await"
    /\ \/ /\ stack[t] = <<>>
          /\ Return(t, <<Fault(t, "user")>> \o SendFault(t))
       \/ /\ stack[t] # <<>>
          /\ pc' = [pc EXCEPT ![t] = "handle"]
          /\ ev' = <<Fault(t, "result")>>
          /\ UNCHANGED <<send_lock, text, callVars, exChat>>
       \/ /\ \E r \in Responses[budget[t]] :
                /\ stack' = [stack EXCEPT ![t] = <<Activation(r)>> \o @]
                /\ budget' = [budget EXCEPT ![t] = @ - Len(r.parts)]
          /\ pc' = [pc EXCEPT ![t] = "handle"]
          /\ ev' = <<>>
          /\ UNCHANGED <<send_lock, text, exChat>>
    /\ UNCHANGED <<sessionVars, timerVars>>
    /\ UNCHANGED <<toolVars, guiVars>>
    /\ UNCHANGED probed

\* ---------------------------------------------------------- save_api_key
\* save_api_key(k) on the console thread: the file write may fail; else
\* self.api_key is set and initialize_model decides the result
SaveOutcomes == {"write_fail"} \cup InitOutcomes

save_api_key(k, outcome) ==
    /\ IF outcome = "write_fail"
       THEN /\ UNCHANGED <<sessionVars, exChat>>
            /\ ev' = <<ReturnEv("main", "False")>>
       ELSE /\ api_key' = k
            /\ initialize_model(outcome)
            /\ ev' = <<InitEv("main"),
                       ReturnEv("main", IF outcome = "ok" THEN "True" ELSE "False")>>
    /\ UNCHANGED probed
    /\ UNCHANGED <<send_lock, timerVars, pc, text, callVars>>
    /\ UNCHANGED <<toolVars, guiVars>>

\* ---------------------------------------------------- check_wakeup_timers
\* a timer is appended to self.wakeup_schedule
InsertTimer(tm, msg) ==
    /\ nextTimer \in DOMAIN sent
    /\ wakeup_schedule' = Append(wakeup_schedule,
                                 [id |-> nextTimer, time |-> tm, message |-> msg])
    /\ nextTimer' = nextTimer + 1
    /\ ev' = <<>>
    /\ UNCHANGED <<sessionVars, send_lock, clock, now, snapshot, sent, removed,
                   pc, text, callVars, exChat>>
    /\ UNCHANGED <<toolVars, guiVars>>
    /\ UNCHANGED probed

\* time passes
Tick ==
    /\ clock + 1 \in Times
    /\ clock' = clock + 1
    /\ ev' = <<>>
    /\ UNCHANGED <<sessionVars, send_lock, wakeup_schedule, nextTimer, now,
                   snapshot, sent, removed, pc, text, callVars, exChat>>
    /\ UNCHANGED <<toolVars, guiVars>>
    /\ UNCHANGED probed

\* the elements of s in the opposite order
RECURSIVE list_Reversed(_)
list_Reversed(s) ==
    IF s = <<>> THEN <<>> ELSE Append(list_Reversed(Tail(s)), Head(s))

\* list(self.wakeup_schedule): a copy with the elements in the same order
list(s) == s

\* after time.sleep(1): a non-empty schedule is snapshotted at time `now`
PollWake ==
    /\ pc[Poller] = "sleep"
    /\ Len(wakeup_schedule) # 0
    /\ now' = clock
    /\ snapshot' = list(wakeup_schedule)
    /\ pc' = [pc EXCEPT ![Poller] = "iter"]
    /\ ev' = <<>>
    /\ UNCHANGED <<sessionVars, send_lock, wakeup_schedule, clock, nextTimer,
                   sent, removed, text, callVars, exChat>>
    /\ UNCHANGED <<toolVars, guiVars>>
    /\ UNCHANGED probed

\* a test that takes every timer as expired
Expired_Always(w) == TRUE

\* whether the poller sends for timer w
Expired(w) == now >= w.time

\* the for loop: the next timer of the snapshot is skipped, or
\* send_to_assistant("WAKEUP:" + message) is called for it
PollIter ==
    /\ pc[Poller] = "iter"
    /\ IF snapshot = <<>>
       THEN /\ pc' = [pc EXCEPT ![Poller] = "sleep"]
            /\ now' = 0
            /\ UNCHANGED <<snapshot, sent, text>>
       ELSE IF Expired(Head(snapshot))
       THEN /\ pc' = [pc EXCEPT ![Poller] = "acquire"]
            /\ text' = [text EXCEPT ![Poller] = WakeupText(Head(snapshot))]
            /\ sent' = [sent EXCEPT ![Head(snapshot).id] = @ + 1]
            /\ UNCHANGED <<snapshot, now>>
       ELSE /\ snapshot' = Tail(snapshot)
            /\ UNCHANGED <<pc, sent, text, now>>
    /\ ev' = <<>>
    /\ UNCHANGED <<sessionVars, send_lock, wakeup_schedule, clock, nextTimer,
                   removed, callVars, exChat>>
    /\ UNCHANGED <<toolVars, guiVars>>
    /\ UNCHANGED probed

\* self.wakeup_schedule.remove(wakeup_timer); ValueError ends the thread
PollRemove ==
    /\ pc[Poller] = "remove"
    /\ LET i == FirstIndex(wakeup_schedule, Head(snapshot), 1) IN
       IF i = 0
       THEN /\ pc' = [pc EXCEPT ![Poller] = "crashed"]
            /\ UNCHANGED <<wakeup_schedule, removed>>
       ELSE /\ wakeup_schedule' = RemoveAt(wakeup_schedule, i)
            /\ removed' = removed \cup {wakeup_schedule[i].id}
            /\ pc' = [pc EXCEPT ![Poller] = "iter"]
    /\ snapshot' = Tail(snapshot)
    /\ ev' = <<>>
    /\ UNCHANGED <<sessionVars, send_lock, clock, nextTimer, now, sent, text,
                   callVars, exChat>>
    /\ UNCHANGED <<toolVars, guiVars>>
    /\ UNCHANGED probed

\* ------------------------------------------------------- specifications
Next ==
    \/ \E t \in Threads, txt \in Texts : send_to_assistant(t, txt)
    \/ \E t \in Threads : Acquire(t)
    \/ \E t \in Threads : check_connection(t)
    \/ \E t \in Threads : Probe(t)
    \/ \E t \in Threads : SendMessage(t)
    \/ \E t \in Threads : handle_gemini_response(t)
    \/ \E t \in Threads : Answer(t)
    \/ \E k \in Keys, outcome \in SaveOutcomes : save_api_key(k, outcome)
    \/ \E tm \in Times, msg \in Messages : InsertTimer(tm, msg)
    \/ Tick
    \/ PollWake
    \/ PollIter
    \/ PollRemove

Spec == Init /\ [][Next]_vars

\* the steps of a thread inside send_to_assistant
SendStep(t) ==
    check_connection(t) \/ Probe(t) \/ SendMessage(t) \/ Answer(t)
        \/ handle_gemini_response(t)

\* every started call makes progress (backend calls return or raise), the
\* lock is eventually granted to a thread that keeps waiting for it, and the
\* poller thread keeps running
Fairness ==
    /\ \A t \in Threads : WF_vars(SendStep(t))
    /\ \A t \in Threads : SF_vars(Acquire(t))
    /\ WF_vars(PollWake \/ PollIter \/ PollRemove)

\* Liveness is checked on the calls made once MaxTimers timers have been
\* scheduled (the states Init reaches by InsertTimer steps alone), while no
\* further timer is inserted and the credential is not changed
TimerSeqs == [1..MaxTimers -> Times \X Messages]

InitScheduled ==
    /\ api_key \in {NoKey} \cup Keys
    /\ model = None
    /\ chat = None
    /\ send_lock = NoThread
    /\ \E f \in TimerSeqs :
          wakeup_schedule =
             [i \in 1..MaxTimers |-> [id |-> i, time |-> f[i][1], message |-> f[i][2]]]
    /\ clock = 0
    /\ nextTimer = MaxTimers + 1
    /\ pc = [t \in Threads |-> IF t = Poller THEN "sleep" ELSE "idle"]
    /\ text = [t \in Threads |-> ""]
    /\ stack = [t \in Threads |-> <<>>]
    /\ budget = [t \in Threads |-> 0]
    /\ now = 0
    /\ snapshot = <<>>
    /\ sent = [i \in 1..MaxTimers |-> 0]
    /\ removed = {}
    /\ exChat = [t \in Threads |-> None]
    /\ ev = <<>>
    /\ probed = FALSE
    /\ mav_param = NoParams
    /\ result = NoCall
    /\ NoModules
    /\ NoFrame

NextScheduled ==
    \/ \E t \in Threads, txt \in Texts : send_to_assistant(t, txt)
    \/ \E t \in Threads : Acquire(t)
    \/ \E t \in Threads : check_connection(t)
    \/ \E t \in Threads : Probe(t)
    \/ \E t \in Threads : SendMessage(t)
    \/ \E t \in Threads : handle_gemini_response(t)
    \/ \E t \in Threads : Answer(t)
    \/ Tick
    \/ PollWake
    \/ PollIter
    \/ PollRemove

FairSpec == InitScheduled /\ [][NextScheduled]_vars /\ Fairness

\* ------------------------------------------------------------ properties
\* a thread is inside the `with self.send_lock:` block
InExchange(t) == pc[t] \in {"check", "probe", "send", "await", "handle"}

\* the events of kind k that thread t produced in the last step
EventsOf(es, t, k) == SelectSeq(es, LAMBDA e : e.by = t /\ e.ev = k)

\* the handlers thread t invoked in the step that produced es
Invoked(es, t) == EventsOf(es, t, "invoke")

\* C1: at most one thread is inside an exchange, and a backend call (probe,
\* user text, tool-result continuation) is made only while no other thread
\* is inside an exchange
C1_Serialized ==
    /\ Cardinality({t \in Threads : InExchange(t)}) <= 1
    /\ \A i \in 1..Len(ev) :
          ev[i].ev \in BackendKinds =>
             \A u \in Threads \ {ev[i].by} : ~InExchange(u)

\* a second caller waits while the first is in a nested continuation
C1_Witness ==
    \E t \in Threads, u \in Threads :
       /\ t # u
       /\ pc[t] = "acquire"
       /\ pc[u] = "await"
       /\ Len(stack[u]) = 1
       /\ \E i \in 1..Len(ev) : ev[i].ev = "result" /\ ev[i].by = u

\* C2: whenever no send_to_assistant call is executing the lock is free, and
\* a caller waiting for the lock eventually holds it
C2_LockReleased ==
    /\ []((\A t \in Threads : ~InExchange(t)) => send_lock = NoThread)
    /\ \A t \in Threads : (pc[t] = "acquire") ~> (send_lock = t)

\* a call has just ended on a failure path while another caller waits
C2_Witness ==
    \E t \in Threads, u \in Threads :
       /\ t # u
       /\ pc[u] = "acquire"
       /\ send_lock = NoThread
       /\ pc[t] = ReturnPc(t)
       /\ \E i \in 1..Len(ev) :
             /\ ev[i].by = t
             /\ ev[i].ev = "status"
             /\ ev[i].arg = "Error: backend fault"

\* C3: a function-call directive naming a tool of the declared tool table
\* invokes exactly one handler, the one registered under that name, and
\* dispatch does not raise
C3_RegisteredToolInvoked ==
    \A i \in 1..Len(ev) :
       (ev[i].ev = "directive" /\ ev[i].arg \in ToolNames) =>
           /\ Invoked(ev, ev[i].by) =
                 <<[ev |-> "invoke", by |-> ev[i].by, arg |-> ev[i].arg]>>
           /\ pc[ev[i].by] = "await"

\* C4: when a dispatched handler raises, the fault stays inside dispatch: the
\* thread goes on, still holding the lock, to send as the tool result the
\* string "<name>: function call failed - <message>", and once the backend
\* call is over the thread handles what follows
C4_HandlerFaultLocal ==
    /\ [](\A i \in 1..Len(ev) :
            ev[i].ev = "raise" =>
               /\ pc[ev[i].by] = "await"
               /\ send_lock = ev[i].by
               /\ \E m \in HandlerRaises(ev[i].arg) :
                     ev[Len(ev)] =
                        [ev |-> "result", by |-> ev[i].by,
                         arg |-> "Function result for " \o ev[i].arg \o ": \""
                                 \o ev[i].arg \o ": function call failed - "
                                 \o m \o "\""])
    /\ [][\A t \in Threads :
            (pc[t] = "await" /\ stack[t] # <<>> /\ pc'[t] # "await") =>
               /\ pc'[t] = "handle"
               /\ send_lock' = t
               /\ \/ Len(stack'[t]) = Len(stack[t]) + 1
                  \/ stack'[t] = stack[t] /\ ev' = <<[ev |-> "fault", by |-> t,
                                                     arg |-> "result"]>>]_vars

\* the error string of a handler that raised has been sent to the backend
C4_Witness ==
    \E t \in Threads :
       /\ pc[t] = "await"
       /\ \E i \in 1..Len(ev) : ev[i].ev = "raise" /\ ev[i].by = t
       /\ ev[Len(ev)].ev = "result"
       /\ ev[Len(ev)].arg = "Function result for get_parameter: "
                               \o "\"get_parameter: function call failed - link down\""

\* C5: a directive whose name is not a registered tool invokes no handler
\* and does not raise; its result is "Unrecognized function call: <name>",
\* and that result is sent to the backend as a continuation message, after
\* which the thread handles what follows
C5_UnknownToolAnswered ==
    /\ [](\A i \in 1..Len(ev) :
            (ev[i].ev = "directive" /\ ev[i].arg \notin ToolNames \cup {""}) =>
               /\ Invoked(ev, ev[i].by) = <<>>
               /\ EventsOf(ev, ev[i].by, "raise") = <<>>
               /\ pc[ev[i].by] = "await"
               /\ send_lock = ev[i].by
               /\ ev[Len(ev)] =
                     [ev |-> "result", by |-> ev[i].by,
                      arg |-> "Function result for " \o ev[i].arg
                              \o ": \"Unrecognized function call: "
                              \o ev[i].arg \o "\""])
    /\ [][\A t \in Threads :
            (pc[t] = "await" /\ stack[t] # <<>> /\ ev' = <<>> /\ pc'[t] # "await") =>
               /\ pc'[t] = "handle"
               /\ Len(stack'[t]) = Len(stack[t]) + 1]_vars

\* the result of an unregistered directive has been sent to the backend
C5_Witness ==
    \E t \in Threads :
       /\ pc[t] = "await"
       /\ ev = <<[ev |-> "directive", by |-> t, arg |-> "nonexistent"],
                 [ev |-> "result", by |-> t,
                  arg |-> "Function result for nonexistent: "
                          \o "\"Unrecognized function call: nonexistent\""]>>

\* the timer with identity id is in the schedule and its time has passed
Due(id) ==
    \E i \in 1..Len(wakeup_schedule) :
       wakeup_schedule[i].id = id /\ wakeup_schedule[i].time <= clock

Scheduled(id) == \E i \in 1..Len(wakeup_schedule) : wakeup_schedule[i].id = id

\* C6: a timer causes at most one send, whose text is "WAKEUP:" + message; it
\* is removed only after that send, a removed timer is not in the schedule
\* again, and every timer whose time has passed is eventually sent and removed
C6_TimerSentOnce ==
    /\ [](\A id \in 1..MaxTimers :
            /\ sent[id] <= 1
            /\ id \in removed => sent[id] = 1 /\ ~Scheduled(id))
    /\ []((InExchange(Poller) \/ pc[Poller] \in {"acquire", "remove"}) =>
            /\ snapshot # <<>>
            /\ sent[Head(snapshot).id] = 1
            /\ Head(snapshot).time <= clock
            /\ pc[Poller] # "remove" =>
                  text[Poller] = "WAKEUP:" \o Head(snapshot).message)
    /\ \A id \in 1..MaxTimers : Due(id) ~> (id \in removed /\ sent[id] = 1)

\* a due timer has been sent and removed
C6_Witness ==
    \E id \in 1..MaxTimers :
       /\ id \in removed
       /\ sent[id] = 1
       /\ pc[Poller] = "iter"

\* C7 as claimed: with no API key, send_to_assistant makes no backend call
\* and no model initialisation, emits the connection-failure reply and
\* returns with model and chat unset
C7_NoKeyUninitialised ==
    [][\A t \in Threads :
          (pc[t] = "check" /\ pc'[t] # "check" /\ api_key \in {NoKey, ""}) =>
              /\ ev' = <<[ev |-> "reply", by |-> t, arg |-> ConnFailed]>>
              /\ pc'[t] = ReturnPc(t)
              /\ model' = None
              /\ chat' = None]_vars

\* C7 as amended: with no API key, send_to_assistant makes no backend call
\* and no model initialisation, emits the connection-failure reply and
\* returns leaving model and chat as they are
C7_NoKeyNoBackend ==
    [][\A t \in Threads :
          (pc[t] = "check" /\ pc'[t] # "check" /\ api_key \in {NoKey, ""}) =>
              /\ ev' = <<[ev |-> "reply", by |-> t, arg |-> ConnFailed]>>
              /\ pc'[t] = ReturnPc(t)
              /\ send_lock' = NoThread
              /\ model' = model
              /\ chat' = chat]_vars

\* a call has returned with the failure reply while the key is empty and a
\* model initialised by save_api_key exists
C7_Witness ==
    \E t \in Threads :
       /\ api_key = ""
       /\ model # None
       /\ pc[t] = ReturnPc(t)
       /\ ev = <<[ev |-> "reply", by |-> t, arg |-> ConnFailed]>>

\* C8: a fault of chat.send_message (user text or tool-result continuation)
\* and a response without candidates are reported through status_cb, and
\* the calling thread goes on
C8_FaultsToStatus ==
    [][\A t \in Threads :
          (\/ \E i \in 1..Len(ev') :
                 ev'[i].by = t /\ ev'[i].ev = "fault" /\ ev'[i].arg \in {"user", "result"}
           \/ /\ pc[t] = "handle"
              /\ stack[t] # <<>>
              /\ ~Head(stack[t]).cand
              /\ stack'[t] # stack[t]) =>
              /\ EventsOf(ev', t, "status") # <<>>
              /\ pc'[t] # "crashed"]_vars

\* C9: every tool-result continuation of an exchange is delivered to the
\* chat session that took the exchange's user text
C9_OneChatPerExchange ==
    \A i \in 1..Len(ev) :
       ev[i].ev = "result" => exChat[ev[i].by] = chat

\* the parts of the responses thread t has still to handle
RECURSIVE Pending(_)
Pending(st) == IF st = <<>> THEN 0 ELSE Len(Head(st).parts) + Pending(Tail(st))

\* C10: handle_gemini_response is nested no deeper than one activation per
\* part of the exchange's responses handled so far, and a thread holding the
\* lock eventually returns and releases it
C10_ExchangeTerminates ==
    /\ [](\A t \in Threads :
            /\ pc[t] = "handle" => Len(stack[t]) >= 1
            /\ pc[t] \in {"handle", "await"} =>
                  Len(stack[t]) + Pending(stack[t]) + budget[t] <= 1 + MaxParts)
    /\ \A t \in Threads : (send_lock = t) ~> (send_lock # t /\ ~InExchange(t))

\* a nested activation is being handled and the backend emits no further
\* directive
C10_Witness ==
    \E t \in Threads :
       /\ pc[t] = "handle"
       /\ Len(stack[t]) = 2
       /\ \A i \in 1..2 : \A j \in 1..Len(stack[t][i].parts) :
             stack[t][i].parts[j].fc # "named"

\* the response r has candidates and none of its parts has a function_call
NoDirective(r) ==
    r.cand /\ \A j \in 1..Len(r.parts) : r.parts[j].fc = "absent"

\* no activation of st has a part with a named directive left to handle
NothingToSend(st) ==
    \A i \in 1..Len(st) : \A j \in 1..Len(st[i].parts) : st[i].parts[j].fc # "named"

\* C11: while the response being handled carries no function-call directive,
\* each step emits the text of its next part through the reply sink, and
\* once its parts are done the "Ready" status is emitted and the exchange is
\* over: the call returns with the lock released, or what is left of the
\* exchange sends no further message to the backend
C11_PlainResponseEnds ==
    [][\A t \in Threads :
          (/\ pc[t] = "handle"
           /\ stack[t] # <<>>
           /\ NoDirective(Head(stack[t]).response)
           /\ stack'[t] # stack[t]) =>
              IF Head(stack[t]).parts # <<>>
              THEN /\ ev' = <<[ev |-> "reply", by |-> t,
                               arg |-> Head(Head(stack[t]).parts).text]>>
                   /\ stack'[t] = [stack[t] EXCEPT ![1].parts = Tail(@)]
              ELSE /\ ev' = <<[ev |-> "status", by |-> t, arg |-> "Ready"]>>
                   /\ \/ pc'[t] = ReturnPc(t) /\ send_lock' = NoThread
                      \/ pc'[t] = "handle" /\ NothingToSend(stack'[t])]_vars

\* ------------------------------------------------ specification of timers
\* The poller's claims about several timers are checked on the runs in
\* which up to MaxQueued timers are inserted, at any moment, while the
\* credential is not changed
MaxQueued == 2   \* wakeup timers inserted over a run of TimerSpec

InitTimers ==
    /\ api_key \in {NoKey} \cup Keys
    /\ model = None
    /\ chat = None
    /\ send_lock = NoThread
    /\ wakeup_schedule = <<>>
    /\ clock = 0
    /\ nextTimer = 1
    /\ pc = [t \in Threads |-> IF t = Poller THEN "sleep" ELSE "idle"]
    /\ text = [t \in Threads |-> ""]
    /\ stack = [t \in Threads |-> <<>>]
    /\ budget = [t \in Threads |-> 0]
    /\ now = 0
    /\ snapshot = <<>>
    /\ sent = [i \in 1..MaxQueued |-> 0]
    /\ removed = {}
    /\ exChat = [t \in Threads |-> None]
    /\ ev = <<>>
    /\ probed = FALSE
    /\ mav_param = NoParams
    /\ result = NoCall
    /\ NoModules
    /\ NoFrame

NextTimers ==
    \/ \E t \in Threads, txt \in Texts : send_to_assistant(t, txt)
    \/ \E t \in Threads : Acquire(t)
    \/ \E t \in Threads : check_connection(t)
    \/ \E t \in Threads : Probe(t)
    \/ \E t \in Threads : SendMessage(t)
    \/ \E t \in Threads : handle_gemini_response(t)
    \/ \E t \in Threads : Answer(t)
    \/ \E tm \in Times, msg \in Messages : InsertTimer(tm, msg)
    \/ Tick
    \/ PollWake
    \/ PollIter
    \/ PollRemove

TimerSpec == InitTimers /\ [][NextTimers]_vars /\ Fairness

\* ------------------------------------------------------------------ C12
\* the position of the timer with identity k in the schedule s, 0 if absent
RECURSIVE PositionOf(_, _, _)
PositionOf(s, k, i) ==
    IF i > Len(s) THEN 0
    ELSE IF s[i].id = k THEN i ELSE PositionOf(s, k, i + 1)

\* C12: when several wakeup timers are due in the same poll cycle, each is
\* sent exactly once and the sends occur in the order of wakeup_schedule:
\* a timer for which send_to_assistant is called was never sent before, is
\* in the schedule and due at the cycle's timestamp, and no timer before
\* it in the schedule is due at that timestamp (they were sent and removed)
C12_DueSentInOrder ==
    [][\A k \in DOMAIN sent :
          sent'[k] # sent[k] =>
             LET i == PositionOf(wakeup_schedule, k, 1) IN
             /\ sent[k] = 0
             /\ sent'[k] = 1
             /\ i # 0
             /\ wakeup_schedule[i].time <= now
             /\ \A j \in 1..(i - 1) : wakeup_schedule[j].time > now]_vars

\* two timers of one snapshot are due at the cycle's timestamp; the first
\* one was sent and is about to be removed, the second one is still unsent
C12_Witness ==
    /\ pc[Poller] = "remove"
    /\ Len(snapshot) = 2
    /\ \A i \in 1..2 : snapshot[i].time <= now
    /\ sent[snapshot[1].id] = 1
    /\ sent[snapshot[2].id] = 0

\* ---------------------------------------------------------- tool handlers
\* Parameter names and patterns are sequences of one-character strings;
\* a text built by a handler is the sequence of the pieces it concatenates.
MaxPat == 2   \* characters of a pattern or name drawn for get_parameter

\* the characters used, in the order of their code points
Chars == <<"(", "*", ".", "A", "B", "C", "D", "E", "F", "G", "H", "I", "J",
           "K", "L", "M", "N", "O", "P", "Q", "R", "S", "T", "U", "V", "W",
           "X", "Y", "Z", "_">>

Ord(c) == CHOOSE i \in 1..Len(Chars) : Chars[i] = c

\* a < b in Python's comparison of strings
RECURSIVE StrLess(_, _)
StrLess(a, b) ==
    IF b = <<>> THEN FALSE
    ELSE IF a = <<>> THEN TRUE
    ELSE IF Head(a) = Head(b) THEN StrLess(Tail(a), Tail(b))
    ELSE Ord(Head(a)) < Ord(Head(b))

\* sorted(S): the elements of S in ascending order
RECURSIVE sorted(_)
sorted(S) ==
    IF S = {} THEN <<>>
    ELSE LET m == CHOOSE x \in S : \A y \in S \ {x} : StrLess(x, y)
         IN  <<m>> \o sorted(S \ {m})

\* contains_regex: regex_characters
regex_characters ==
    {".", "^", "$", "*", "+", "?", "{", "}", "[", "]", "\\", "|", "(", ")"}

\* contains_regex(string)
contains_regex(string) ==
    \E i \in 1..Len(string) : string[i] \in regex_characters

\* the characters patterns are drawn from: literals, any-character,
\* repetition and the opening of a group
PatChars == {"B", "T", ".", "*", "("}

\* re.compile(p) raises re.error: a group that is not closed, or a
\* repetition with nothing to repeat or of a repetition
re_error(p) ==
    \E i \in 1..Len(p) :
        \/ p[i] = "("
        \/ p[i] = "*" /\ (i = 1 \/ p[i - 1] = "*")

\* the pattern character c accepts the character x
Fits(c, x) == c = "." \/ c = x

\* pattern.match(s) is not None, for a compiled pattern of literals, "."
\* and "*": the pattern matches at the start of s, the rest of s is free
RECURSIVE MatchHere(_, _), MatchStar(_, _, _)
MatchStar(c, p, s) ==
    \/ MatchHere(p, s)
    \/ s # <<>> /\ Fits(c, Head(s)) /\ MatchStar(c, p, Tail(s))

MatchHere(p, s) ==
    IF p = <<>> THEN TRUE
    ELSE IF Len(p) >= 2 /\ p[2] = "*"
    THEN MatchStar(p[1], Tail(Tail(p)), s)
    ELSE s # <<>> /\ Fits(Head(p), Head(s)) /\ MatchHere(Tail(p), Tail(s))

\* a match that accepts s whenever its first character fits
re_match_FirstOnly(p, s) ==
    p = <<>> \/ (s # <<>> /\ Fits(Head(p), Head(s)))

re_match(p, s) == MatchHere(p, s)

\* the default None of arguments.get and get_mav_param
NoValue == "<None>"

\* self.mpstate.functions.get_mav_param(name, default)
get_mav_param(name, default) ==
    IF name \in DOMAIN mav_param THEN mav_param[name] ELSE default

\* what a call of handler f with arguments a produced
ReturnedDict(f, a, items) ==
    [func |-> f, arguments |-> a, kind |-> "dict", items |-> items,
     text |-> <<>>, calls |-> <<>>]

ReturnedStr(f, a, txt) ==
    [func |-> f, arguments |-> a, kind |-> "str", items |-> <<>>,
     text |-> txt, calls |-> <<>>]

RaisedIn(f, a) ==
    [func |-> f, arguments |-> a, kind |-> "raise", items |-> <<>>,
     text |-> <<>>, calls |-> <<>>]

\* get_parameter, the loop over the sorted names: param_list as the
\* sequence of its items in insertion order
RECURSIVE Collect(_, _)
Collect(pattern, names) ==
    IF names = <<>> THEN <<>>
    ELSE LET existing_param_name == Head(names)
             param_value == get_mav_param(existing_param_name, NoValue)
         IN  (IF re_match(pattern, existing_param_name) /\ param_value # NoValue
              THEN << <<existing_param_name, param_value>> >>
              ELSE <<>>) \o Collect(pattern, Tail(names))

\* the text returned for an exact name without a value
NotFound_NoName(param_name) ==
    <<"get_parameter: ", " parameter not found">>

NotFound(param_name) ==
    <<"get_parameter: ">> \o param_name \o <<" parameter not found">>

\* get_parameter(arguments)
get_parameter(arguments) ==
    /\ result' =
         IF "name" \notin DOMAIN arguments
         THEN ReturnedStr("get_parameter", arguments,
                          <<"get_parameter: name not specified">>)
         ELSE LET param_name == arguments["name"] IN
              IF contains_regex(param_name)
              THEN IF re_error(param_name)
                   THEN RaisedIn("get_parameter", arguments)
                   ELSE ReturnedDict("get_parameter", arguments,
                                     Collect(param_name, sorted(DOMAIN mav_param)))
              ELSE LET param_value == get_mav_param(param_name, NoValue) IN
                   IF param_value = NoValue
                   THEN ReturnedStr("get_parameter", arguments, NotFound(param_name))
                   ELSE ReturnedDict("get_parameter", arguments,
                                     << <<param_name, param_value>> >>)
    /\ UNCHANGED <<mav_param, chatVars, guiVars>>

\* a test for a missing value that also rejects a zero
ValueMissing_Falsy(arguments) ==
    "value" \notin DOMAIN arguments \/ arguments["value"] = "0"

\* set_parameter: arguments.get("value", None) is None
ValueMissing(arguments) == "value" \notin DOMAIN arguments

\* self.mpstate.functions.param_set(name, value, retries=3): the parameter
\* dictionaries it may leave, as the vehicle takes the value or does not
param_set(name, value) ==
    {mav_param,
     [n \in DOMAIN mav_param \cup {name} |->
         IF n = name THEN value ELSE mav_param[n]]}

\* set_parameter(arguments)
set_parameter(arguments) ==
    IF "name" \notin DOMAIN arguments
    THEN /\ result' = ReturnedStr("set_parameter", arguments,
                           <<"set_parameter: parameter name not specified">>)
         /\ UNCHANGED <<mav_param, chatVars, guiVars>>
    ELSE IF ValueMissing(arguments)
    THEN /\ result' = ReturnedStr("set_parameter", arguments,
                           <<"set_parameter: value not specified">>)
         /\ UNCHANGED <<mav_param, chatVars, guiVars>>
    ELSE /\ mav_param' \in param_set(arguments["name"], arguments["value"])
         /\ result' =
               [ReturnedStr("set_parameter", arguments,
                            <<"set_parameter: parameter value set">>)
                   EXCEPT !.calls = <<[func |-> "param_set",
                                       name |-> arguments["name"],
                                       value |-> arguments["value"],
                                       retries |-> 3]>>]
         /\ UNCHANGED <<chatVars, guiVars>>

\* ------------------------------------------- specification of the tools
BATT_CAPACITY == <<"B", "A", "T", "T", "_", "C", "A", "P", "A", "C", "I", "T", "Y">>
BATT_LOW_VOLT == <<"B", "A", "T", "T", "_", "L", "O", "W", "_", "V", "O", "L", "T">>
THR_MIN       == <<"T", "H", "R", "_", "M", "I", "N">>
NOPE          == <<"N", "O", "P", "E">>
BattPattern   == <<"B", "A", "T", "T", ".", "*">>

\* a parameter dictionary of a vehicle
VehicleParams ==
    [n \in {BATT_CAPACITY, BATT_LOW_VOLT, THR_MIN} |->
        IF n = BATT_CAPACITY THEN "5000"
        ELSE IF n = BATT_LOW_VOLT THEN "10.5" ELSE "100"]

\* short parameter names, and the dictionaries over them
ParamNames == {<<"B">>, <<"B", "T">>, <<"T", "B">>, <<"B", "T", "T">>}
ParamValues == {"100", "5000"}
Stores ==
    {VehicleParams} \cup UNION {[S -> ParamValues] : S \in SUBSET ParamNames}

\* the names and patterns a call may carry
NamesOfLen(n) == [1..n -> PatChars]
CallNamesOf == {NOPE, BattPattern} \cup UNION {NamesOfLen(n) : n \in 1..MaxPat}
ArgumentSets == {NoParams} \cup {[name |-> n] : n \in CallNamesOf}

\* the arguments a call of set_parameter may carry: a name, a value (zero
\* among them), both or neither
SetNames == {<<"B">>, THR_MIN}
SetValues == {"0", "5000"}
SetArgumentSets ==
    {NoParams} \cup {[name |-> n] : n \in SetNames}
        \cup {[value |-> v] : v \in SetValues}
        \cup {[name |-> n, value |-> v] : n \in SetNames, v \in SetValues}

InitTools ==
    /\ api_key = NoKey
    /\ model = None
    /\ chat = None
    /\ send_lock = NoThread
    /\ wakeup_schedule = <<>>
    /\ clock = 0
    /\ nextTimer = 1
    /\ pc = [t \in Threads |-> IF t = Poller THEN "sleep" ELSE "idle"]
    /\ text = [t \in Threads |-> ""]
    /\ stack = [t \in Threads |-> <<>>]
    /\ budget = [t \in Threads |-> 0]
    /\ now = 0
    /\ snapshot = <<>>
    /\ sent = [i \in 1..MaxTimers |-> 0]
    /\ removed = {}
    /\ exChat = [t \in Threads |-> None]
    /\ ev = <<>>
    /\ probed = FALSE
    /\ mav_param \in Stores
    /\ result = NoCall
    /\ NoModules
    /\ NoFrame

NextTools ==
    \/ \E arguments \in ArgumentSets : get_parameter(arguments)
    \/ \E arguments \in SetArgumentSets : set_parameter(arguments)

ToolSpec == InitTools /\ [][NextTools]_vars

\* ------------------------------------------------------------------ C13
\* the positions of pattern p that hold a character to be matched
Atoms(p) == {i \in 1..Len(p) : p[i] # "*"}

\* the atom at position i of p is repeated
Starred(p, i) == i < Len(p) /\ p[i + 1] = "*"

\* the name n matches the pattern p: for some number of repetitions of
\* each repeated atom, the atoms accept the leading characters of n
Denotes(p, n) ==
    \E rep \in [{i \in Atoms(p) : Starred(p, i)} -> 0..Len(n)] :
        LET len(i) == IF Starred(p, i) THEN rep[i] ELSE 1
            before[i \in 1..(Len(p) + 1)] ==
                IF i = 1 THEN 0
                ELSE before[i - 1] + (IF (i - 1) \in Atoms(p) THEN len(i - 1) ELSE 0)
        IN  /\ before[Len(p) + 1] <= Len(n)
            /\ \A i \in Atoms(p) :
                  \A k \in 1..len(i) : Fits(p[i], n[before[i] + k])

\* the pattern p is a regular expression
WellFormed(p) ==
    \A i \in 1..Len(p) :
        /\ p[i] # "("
        /\ p[i] = "*" => (i > 1 /\ p[i - 1] # "*")

\* the last call was get_parameter with a name holding a metacharacter
PatternCall ==
    /\ result.func = "get_parameter"
    /\ "name" \in DOMAIN result.arguments
    /\ \E i \in 1..Len(result.arguments["name"]) :
          result.arguments["name"][i] \in {".", "*", "("}

\* the result is exactly the mapping over the matching names, in
\* ascending order of the names
MappingOfMatches ==
    /\ result.kind = "dict"
    /\ \A i \in 1..Len(result.items) : \A j \in 1..Len(result.items) :
          i < j => StrLess(result.items[i][1], result.items[j][1])
    /\ {result.items[i] : i \in 1..Len(result.items)} =
          {<<n, mav_param[n]>> :
              n \in {m \in DOMAIN mav_param : Denotes(result.arguments["name"], m)}}
    /\ (mav_param = VehicleParams /\ result.arguments["name"] = BattPattern) =>
          result.items = << <<BATT_CAPACITY, "5000">>, <<BATT_LOW_VOLT, "10.5">> >>

\* C13 as stated: get_parameter called with a name containing a regex
\* metacharacter returns exactly the mapping name -> value over the
\* existing parameter names that match the pattern, in lexicographic
\* order, and no other name
C13_PatternReturnsMatches ==
    PatternCall => MappingOfMatches

\* C13: get_parameter called with a name containing a regex metacharacter
\* that is a regular expression returns exactly the mapping name -> value
\* over the existing parameter names the pattern matches at their start,
\* in lexicographic order, and no other name; called with a name that is
\* not a regular expression it raises and returns nothing
C13_WellFormedPatternReturnsMatches ==
    PatternCall =>
        IF WellFormed(result.arguments["name"])
        THEN MappingOfMatches
        ELSE result.kind = "raise"

\* the vehicle's parameters were looked up with "BATT.*"
C13_Witness ==
    /\ PatternCall
    /\ mav_param = VehicleParams
    /\ result.arguments["name"] = BattPattern
    /\ Len(result.items) = 2

\* ------------------------------------------------------------------ C14
\* the last call was get_parameter with an exact name that has no value
ExactMissCall ==
    /\ result.func = "get_parameter"
    /\ "name" \in DOMAIN result.arguments
    /\ \A i \in 1..Len(result.arguments["name"]) :
          result.arguments["name"][i] \notin {".", "*", "("}
    /\ result.arguments["name"] \notin DOMAIN mav_param

\* the characters of s occur in the text txt, one after the other
Occurs(s, txt) ==
    \E k \in 0..(Len(txt) - Len(s)) : \A i \in 1..Len(s) : txt[k + i] = s[i]

\* C14: get_parameter called with an exact (non-pattern) name that does
\* not resolve to a value returns an error string that contains the
\* requested name and the words "not found"; it does not raise and
\* returns no mapping
C14_ExactMissNamesParameter ==
    ExactMissCall =>
        /\ result.kind = "str"
        /\ result.items = <<>>
        /\ Occurs(result.arguments["name"], result.text)
        /\ Occurs(<<" parameter not found">>, result.text)

\* the parameter NOPE was looked up in the vehicle's parameters
C14_Witness ==
    /\ ExactMissCall
    /\ mav_param = VehicleParams
    /\ result.arguments["name"] = NOPE
    /\ result.text = <<"get_parameter: ", "N", "O", "P", "E", " parameter not found">>

\* ------------------------------------------------------------------ C15
\* C15: within one send exchange the "Ready" status is final: it is
\* emitted exactly once, after the last response has been handled, and no
\* reply text and no backend message of that exchange occurs after it,
\* also with nested tool-call continuations: the step of thread t that
\* emits "Ready" ends t's exchange
C15_ReadyIsFinal ==
    [][\A t \in Threads :
          (\E i \in 1..Len(ev') : ev'[i] = [ev |-> "status", by |-> t, arg |-> "Ready"])
             => (~InExchange(t))']_vars

\* ------------------------------------------------------------------ C16
\* the continuation messages that carry a serialized result for `name`
ResultsFor(t, name) ==
    {[ev |-> "result", by |-> t,
      arg |-> "Function result for " \o name \o ": " \o JsonDumps(d.output)] :
         d \in Outputs(t, name)}

\* C16: for every function-call directive with a non-empty name the tool
\* is dispatched exactly once (no retry) and exactly one continuation
\* message carrying the serialized result for that name is sent to the
\* backend; the response to that continuation is handled completely, on
\* top of the activation of the original response, before a later part of
\* the original response is handled
C16_OneDispatchOneContinuation ==
    /\ [](\A i \in 1..Len(ev) :
            (ev[i].ev = "directive" /\ ev[i].arg # "") =>
               LET t == ev[i].by IN
               /\ Len(EventsOf(ev, t, "directive")) = 1
               /\ Len(Invoked(ev, t)) <= 1
               /\ Len(Invoked(ev, t)) = 1 <=> ev[i].arg \in supported_funcs
               /\ \A j \in 1..Len(ev) : ev[j].ev = "invoke" => ev[j].arg = ev[i].arg
               /\ Len(EventsOf(ev, t, "result")) = 1
               /\ ev[Len(ev)] \in ResultsFor(t, ev[i].arg)
               /\ pc[t] = "await")
    /\ [][\A t \in Threads :
            stack[t] # <<>> =>
               \/ stack'[t] = stack[t]
               \/ stack'[t] = <<>> /\ Len(stack[t]) = 1
               \/ stack'[t] = Tail(stack[t]) /\ Head(stack[t]).parts = <<>>
               \/ /\ Len(stack'[t]) = Len(stack[t])
                  /\ Tail(stack'[t]) = Tail(stack[t])
                  /\ Head(stack'[t]).parts = Tail(Head(stack[t]).parts)
               \/ /\ pc[t] = "await"
                  /\ Tail(stack'[t]) = stack[t]]_vars

\* the response to a continuation is being handled while a later part of
\* the original response waits in the activation below
C16_Witness ==
    /\ pc["fg"] = "handle"
    /\ Len(stack["fg"]) = 2
    /\ stack["fg"][2].parts # <<>>
    /\ \E i \in 1..Len(stack["fg"][2].response.parts) :
          stack["fg"][2].response.parts[i].fc = "named"

\* ------------------------------------------------------------------ C17
\* thread t's step is a failed check_connection with a credential present:
\* initialize_model failed or the probe raised
ConnectionFailure(t) ==
    /\ api_key \notin {NoKey, ""}
    /\ \/ pc[t] = "check" /\ pc'[t] \notin {"check", "probe"}
       \/ pc[t] = "probe" /\ pc'[t] \notin {"probe", "send"}

C18_NoProbeWhenReady ==
    [][\A i \in 1..Len(ev') : ev'[i].ev = "probe" => ~probed]_vars

\* ------------------------------------------------------------------ C19
\* the timers of the schedule s as a set
TimersOf(s) == {s[i] : i \in 1..Len(s)}

\* C19: a poll cycle leaves every timer whose due time has not yet passed
\* unchanged: such a timer is neither sent nor removed, and the due time
\* and message of a timer are never modified; a timer is removed only at
\* or after its due time and only by the poller
C19_NotDueUntouched ==
    /\ [](\A w \in TimersOf(wakeup_schedule) :
            w.time > clock => sent[w.id] = 0 /\ w.id \notin removed)
    /\ [][/\ \A w \in TimersOf(wakeup_schedule) :
               w.time > clock' => /\ w \in TimersOf(wakeup_schedule')
                                  /\ sent'[w.id] = sent[w.id]
          /\ \A w \in TimersOf(wakeup_schedule) :
               \A v \in TimersOf(wakeup_schedule') : v.id = w.id => v = w
          /\ \A w \in TimersOf(wakeup_schedule) \ TimersOf(wakeup_schedule') :
               /\ w.time <= clock
               /\ pc[Poller] = "remove"
               /\ pc'[Poller] = "iter"
               /\ removed' = removed \cup {w.id}]_vars

\* a poll cycle sent and removed the second timer of the schedule, which
\* was due, and passed over the first one, which is not due yet
C19_Witness ==
    /\ clock = 0
    /\ removed = {2}
    /\ sent[1] = 0
    /\ Len(wakeup_schedule) = 1
    /\ wakeup_schedule[1].id = 1
    /\ wakeup_schedule[1].time = 1
    /\ pc[Poller] = "sleep"

\* ------------------------------------------------------------------ C20
\* the timer with identity id was inserted
Inserted(id) == id < nextTimer

\* C20: inserting timers concurrently with a poll cycle, also while the
\* poller is blocked inside send_to_assistant, never loses or duplicates a
\* timer: every inserted timer, including one equal in time and message to
\* a timer being processed, is in the schedule until it is removed, is sent
\* at most once, is removed only after it was sent and by the removal that
\* follows its own send, and eventually no timer that is due is left in the
\* schedule (each was sent and removed)
C20_InsertedTimerSentOnce ==
    /\ [](pc[Poller] # "crashed")
    /\ [](\A id \in DOMAIN sent :
            /\ Inserted(id) => (Scheduled(id) <=> id \notin removed)
            /\ ~Inserted(id) => (~Scheduled(id) /\ id \notin removed)
            /\ sent[id] <= 1
            /\ id \in removed => sent[id] = 1)
    /\ [][\A id \in removed' \ removed :
             /\ pc[Poller] = "remove"
             /\ id = Head(snapshot).id]_vars
    /\ <>[](\A id \in DOMAIN sent : ~Due(id))

\* while the poller is inside send_to_assistant for the first timer, a
\* timer equal to it in time and message has been inserted
C20_Witness ==
    /\ InExchange(Poller)
    /\ Len(snapshot) = 1
    /\ Len(wakeup_schedule) = 2
    /\ Head(snapshot).id = 1
    /\ wakeup_schedule[2].time = wakeup_schedule[1].time
    /\ wakeup_schedule[2].message = wakeup_schedule[1].message
    /\ sent[1] = 1
    /\ sent[2] = 0

\* ------------------------------------------------ the window modules
\* mavproxy_welcome and mavproxy_custom_chat start a helper window as a
\* child process that runs a script written into a fresh temporary directory

\* how many directories one module makes
MaxLaunch == 2

\* subprocess.Popen.poll() is None: the process has not ended
Running(m, p) == procs[m][p] = "alive"

\* the condition under which the command starts a window: none was started
\* or the one started last has ended
NoWindow_Always(m) == m \in Modules

NoWindow(m) == window_process[m] = 0 \/ ~Running(m, window_process[m])

\* what a launch can come to: mkdtemp raises, a later step raises (writing
\* the script, chmod, Popen), or the process is started
LaunchOutcomes == {"no_dir", "no_process", "started"}

\* launch_welcome_window / launch_chat_window: the directory replaces
\* self.temp_dir as soon as it is made, the process self.window_process only
\* when Popen returned; every exception is printed and swallowed
launch(m, outcome) ==
    IF outcome = "no_dir"
    THEN UNCHANGED <<window_process, temp_dir, procs, dirs>>
    ELSE /\ dirs' = [dirs EXCEPT ![m] = Append(@, TRUE)]
         /\ temp_dir' = [temp_dir EXCEPT ![m] = Len(dirs[m]) + 1]
         /\ IF outcome = "started"
            THEN /\ procs' = [procs EXCEPT ![m] = Append(@, "alive")]
                 /\ window_process' =
                        [window_process EXCEPT ![m] = Len(procs[m]) + 1]
            ELSE UNCHANGED <<window_process, procs>>

\* __init__: both fields start as None; the welcome module opens its window
\* at once, the custom_chat module waits for the command
Load(m, outcome) ==
    /\ loaded[m] = "no"
    /\ loaded' = [loaded EXCEPT ![m] = "yes"]
    /\ IF m = "welcome"
       THEN launch(m, outcome)
       ELSE /\ outcome = "no_dir"
            /\ UNCHANGED <<window_process, temp_dir, procs, dirs>>
    /\ UNCHANGED <<chatVars, toolVars, llamaVars>>

\* the arguments of the command: none, or the set_key subcommand of
\* custom_chat, which stores the key and returns
Subcommands == {"", "set_key"}

\* cmd_welcome / cmd_custom_chat
cmd(m, sub, outcome) ==
    /\ loaded[m] = "yes"
    /\ Len(dirs[m]) < MaxLaunch
    /\ IF m = "custom_chat" /\ sub = "set_key"
       THEN /\ outcome = "no_dir"
            /\ UNCHANGED <<window_process, temp_dir, procs, dirs>>
       ELSE IF NoWindow(m)
            THEN launch(m, outcome)
            ELSE /\ outcome = "no_dir"
                 /\ UNCHANGED <<window_process, temp_dir, procs, dirs>>
    /\ UNCHANGED <<loaded, chatVars, toolVars, llamaVars>>

\* the window is closed by its user, or its process ends on its own
WindowExit(m) ==
    /\ \E p \in 1..Len(procs[m]) :
          /\ Running(m, p)
          /\ procs' = [procs EXCEPT ![m][p] = "exited"]
    /\ UNCHANGED <<loaded, window_process, temp_dir, dirs, chatVars, toolVars,
                   llamaVars>>

\* the directories unload removes: the one self.temp_dir names
Removed(m) == IF temp_dir[m] # 0 THEN {temp_dir[m]} ELSE {}

\* unload: terminate the window when it still runs, then remove the
\* directory (shutil.rmtree is taken to succeed)
unload(m) ==
    /\ loaded[m] = "yes"
    /\ loaded' = [loaded EXCEPT ![m] = "unloaded"]
    /\ procs' = IF window_process[m] # 0 /\ Running(m, window_process[m])
                THEN [procs EXCEPT ![m][window_process[m]] = "terminated"]
                ELSE procs
    /\ dirs' = [dirs EXCEPT ![m] =
                   [d \in 1..Len(@) |-> IF d \in Removed(m) THEN FALSE ELSE @[d]]]
    /\ UNCHANGED <<window_process, temp_dir, chatVars, toolVars, llamaVars>>

\* nothing of the chat module or of the tools has happened
InitWindows ==
    /\ Init

NextWindows ==
    \/ \E m \in Modules, outcome \in LaunchOutcomes : Load(m, outcome)
    \/ \E m \in Modules, sub \in Subcommands, outcome \in LaunchOutcomes :
          cmd(m, sub, outcome)
    \/ \E m \in Modules : WindowExit(m)
    \/ \E m \in Modules : unload(m)

WindowSpec == InitWindows /\ [][NextWindows]_vars


\* ------------------------------------------------------------------ C21
\* C21: a function-call directive can invoke only the handlers on the
\* dispatcher's supported list: for a name outside that list, also the
\* name of another method of the session object, no method of the session
\* is called, nothing is raised, and the credential, the model, the chat
\* session, the lock, the timers and the vehicle parameters stay as they
\* are; the name is answered with "Unrecognized function call: <name>"
C21_OnlySupportedInvoked ==
    [][\A i \in 1..Len(ev') :
          (/\ ev'[i].ev = "directive"
           /\ ev'[i].arg \notin {"", "get_current_datetime", "get_vehicle_type",
                                 "get_vehicle_state", "get_parameter",
                                 "set_parameter"}) =>
             LET t == ev'[i].by IN
             /\ \A j \in 1..Len(ev') : ev'[j].ev \notin {"invoke", "raise", "init"}
             /\ UNCHANGED <<api_key, model, chat, send_lock, wakeup_schedule,
                            mav_param>>
             /\ ev'[Len(ev')] =
                   [ev |-> "result", by |-> t,
                    arg |-> "Function result for " \o ev'[i].arg
                            \o ": \"Unrecognized function call: "
                            \o ev'[i].arg \o "\""]]_vars

\* the backend named initialize_model in a directive while a key, a model
\* and a chat session exist; the name was answered as unrecognized
C21_Witness ==
    /\ api_key = "K"
    /\ chat = Live
    /\ pc["fg"] = "await"
    /\ ev = <<[ev |-> "directive", by |-> "fg", arg |-> "initialize_model"],
              [ev |-> "result", by |-> "fg",
               arg |-> "Function result for initialize_model: "
                       \o "\"Unrecognized function call: initialize_model\""]>>

\* ------------------------------------------------------------------ C22
\* C22: a due wakeup timer is removed from wakeup_schedule after its
\* send_to_assistant call returns, whatever the outcome: when the send ends
\* in a connection failure or a backend fault the poller still goes on to
\* the removal, the removal takes the timer that was sent out of the
\* schedule for good, and the timer is never sent again
C22_TimerRemovedWhateverOutcome ==
    /\ [][(InExchange(Poller) /\ ~InExchange(Poller)') =>
             /\ pc'[Poller] = "remove"
             /\ send_lock' = NoThread
             /\ UNCHANGED <<snapshot, wakeup_schedule, sent>>]_vars
    /\ [][(pc[Poller] = "remove" /\ pc'[Poller] # "remove") =>
             /\ pc'[Poller] = "iter"
             /\ removed' = removed \cup {Head(snapshot).id}
             /\ Len(wakeup_schedule') = Len(wakeup_schedule) - 1
             /\ \A i \in 1..Len(wakeup_schedule') :
                   wakeup_schedule'[i].id # Head(snapshot).id]_vars
    /\ [][\A id \in DOMAIN sent :
             /\ sent'[id] >= sent[id]
             /\ id \in removed => (id \in removed' /\ sent'[id] = sent[id])]_vars
    /\ \A id \in 1..MaxTimers : sent[id] = 1 ~> id \in removed

\* without a credential the poller's send ended in the connection-failure
\* reply, and the timer it was made for has been removed
C22_Witness ==
    /\ api_key = NoKey
    /\ sent[1] = 1
    /\ removed = {1}
    /\ wakeup_schedule = <<>>
    /\ pc[Poller] = "iter"

\* ------------------------------------------------------------------ C23
\* C23: a response part whose function-call directive has an empty name
\* causes no handler invocation and no continuation message to the
\* backend; handling proceeds with the next part of the same response,
\* and the exchange still ends, with the "Ready" status as its last event
C23_EmptyNameSkipped ==
    /\ [][\A t \in Threads :
            (\E i \in 1..Len(ev') :
                ev'[i] = [ev |-> "directive", by |-> t, arg |-> ""]) =>
               /\ \A j \in 1..Len(ev') :
                     ev'[j].ev \notin {"invoke", "raise", "result", "fault"}
               /\ pc[t] = "handle"
               /\ pc'[t] = "handle"
               /\ send_lock' = t
               /\ stack'[t] = [stack[t] EXCEPT ![1].parts = Tail(@)]]_vars
    /\ [][\A t \in Threads :
            (pc[t] = "handle" /\ ~InExchange(t)' /\ Head(stack[t]).cand) =>
               ev' = <<[ev |-> "status", by |-> t, arg |-> "Ready"]>>]_vars
    /\ \A t \in Threads :
          (\E i \in 1..Len(ev) : ev[i] = [ev |-> "directive", by |-> t, arg |-> ""])
             ~> ~InExchange(t)

\* a directive with an empty name was passed over while a further part of
\* the same response is still to be handled
C23_Witness ==
    /\ ev = <<[ev |-> "directive", by |-> "fg", arg |-> ""]>>
    /\ pc["fg"] = "handle"
    /\ Len(stack["fg"]) = 1
    /\ Head(stack["fg"]).parts # <<>>
    /\ Head(stack["fg"]).response.parts[1].fc = "unnamed"

\* ------------------------------------------------------------------ C24
\* C24: whenever save_api_key returns False (the credential file could not
\* be written, or the model could not be initialised with the new key),
\* the session state is unchanged: api_key, model and chat are the same as
\* before the call
C24_FailedSaveChangesNothing ==
    [][(\E i \in 1..Len(ev') : ev'[i].ev = "return" /\ ev'[i].arg = "False") =>
          UNCHANGED <<api_key, model, chat>>]_vars

\* ------------------------------------------------------------------ C25
\* C25: set_parameter invoked without a name or without a value returns
\* an error string and leaves the vehicle parameters unchanged (param_set
\* is not called); invoked with both, it calls param_set exactly once with
\* that name and value, a numeric value of 0 being accepted as a value
C25_SetParameterFrame ==
    [][result'.func = "set_parameter" =>
          LET a == result'.arguments IN
          IF "name" \notin DOMAIN a
          THEN /\ result'.kind = "str"
               /\ result'.text = <<"set_parameter: parameter name not specified">>
               /\ result'.calls = <<>>
               /\ mav_param' = mav_param
          ELSE IF "value" \notin DOMAIN a
          THEN /\ result'.kind = "str"
               /\ result'.text = <<"set_parameter: value not specified">>
               /\ result'.calls = <<>>
               /\ mav_param' = mav_param
          ELSE /\ result'.calls = <<[func |-> "param_set", name |-> a["name"],
                                     value |-> a["value"], retries |-> 3]>>
               /\ result'.text = <<"set_parameter: parameter value set">>
               /\ \A n \in DOMAIN mav_param \ {a["name"]} :
                     n \in DOMAIN mav_param' /\ mav_param'[n] = mav_param[n]
               /\ DOMAIN mav_param' \subseteq DOMAIN mav_param \cup {a["name"]}
               /\ a["name"] \in DOMAIN mav_param' =>
                     \/ mav_param'[a["name"]] = a["value"]
                     \/ mav_param' = mav_param]_vars

\* THR_MIN of the vehicle was set to 0: param_set was called once with the
\* name and the zero, and the vehicle took the value
C25_Witness ==
    /\ result.func = "set_parameter"
    /\ result.calls = <<[func |-> "param_set", name |-> THR_MIN, value |-> "0",
                         retries |-> 3]>>
    /\ DOMAIN mav_param = DOMAIN VehicleParams
    /\ mav_param[THR_MIN] = "0"
    /\ mav_param[BATT_CAPACITY] = "5000"

\* ------------------------------------------------ the Llama chat frames
\* LlamaChatWindow (mavproxy_llama) and LlamaChatFrame (mavproxy_llamachat):
\* every message typed starts a thread that posts it to the completion
\* endpoint and hands the outcome to the GUI loop with wx.CallAfter

\* how many messages are sent
MaxSend == 2

Frames == {"LlamaChatWindow", "LlamaChatFrame"}

\* the lines of the chat history, by the message they belong to
You(id) == [who |-> "You", id |-> id]

Assistant(id) == [who |-> "Assistant", id |-> id]

ErrorLine(id) == [who |-> "Error", id |-> id]

\* the calls handed to wx.CallAfter
append_text(line) == [func |-> "append_text", arg |-> line]

set_status(value) == [func |-> "set_status", arg |-> value]

\* LlamaChatWindow.__init__ / LlamaChatFrame.__init__: only LlamaChatWindow
\* has a status control, which it sets to "Ready"
Show(f) ==
    /\ frame = "none"
    /\ frame' = f
    /\ status_text' = IF f = "LlamaChatWindow" THEN "Ready" ELSE ""
    /\ UNCHANGED <<chat_history, threads, posted, chatVars, toolVars, windowVars>>

\* what the user typed into the input field
Inputs == {"", "text"}

\* on_send: an empty input does nothing; otherwise the message is appended,
\* the status is set and a thread is started, without looking at the threads
\* already running
on_send(message) ==
    /\ frame # "none"
    /\ Len(threads) < MaxSend
    /\ IF message = ""
       THEN UNCHANGED <<chat_history, status_text, threads>>
       ELSE /\ chat_history' = Append(chat_history, You(Len(threads) + 1))
            /\ status_text' = IF frame = "LlamaChatWindow"
                              THEN "Sending..." ELSE status_text
            /\ threads' = Append(threads, "posting")
    /\ UNCHANGED <<frame, posted, chatVars, toolVars, windowVars>>

\* what requests.post comes to: status 200, another status, an exception
PostOutcomes == {"200", "other", "raised"}

\* what send_to_llama hands to wx.CallAfter for a response
CallsAfter(id, response) ==
    IF frame = "LlamaChatWindow"
    THEN IF response = "200"
         THEN <<append_text(Assistant(id)), set_status("Ready")>>
         ELSE <<set_status("Error")>>
    ELSE IF response = "200"
         THEN <<append_text(Assistant(id))>>
         ELSE <<append_text(ErrorLine(id))>>

\* send_to_llama: the request of one thread ends, in any order among the
\* threads, and its outcome is queued for the GUI loop
send_to_llama(id, response) ==
    /\ id \in 1..Len(threads)
    /\ threads[id] = "posting"
    /\ threads' = [threads EXCEPT ![id] = "done"]
    /\ posted' = posted \o CallsAfter(id, response)
    /\ UNCHANGED <<frame, chat_history, status_text, chatVars, toolVars,
                   windowVars>>

\* the GUI loop runs the oldest call handed to wx.CallAfter
RunPosted ==
    /\ posted # <<>>
    /\ posted' = Tail(posted)
    /\ IF Head(posted).func = "append_text"
       THEN /\ chat_history' = Append(chat_history, Head(posted).arg)
            /\ UNCHANGED status_text
       ELSE /\ status_text' = Head(posted).arg
            /\ UNCHANGED chat_history
    /\ UNCHANGED <<frame, threads, chatVars, toolVars, windowVars>>

InitLlama ==
    /\ Init

NextLlama ==
    \/ \E f \in Frames : Show(f)
    \/ \E message \in Inputs : on_send(message)
    \/ \E id \in 1..MaxSend, response \in PostOutcomes : send_to_llama(id, response)
    \/ RunPosted

LlamaSpec == InitLlama /\ [][NextLlama]_vars

\* a request to the completion endpoint is in flight
InFlight == \E id \in 1..Len(threads) : threads[id] = "posting"

\* the messages whose replies the chat history shows, in the order shown
RECURSIVE Replies(_)
Replies(history) ==
    IF history = <<>> THEN <<>>
    ELSE IF Head(history).who = "Assistant"
         THEN <<Head(history).id>> \o Replies(Tail(history))
         ELSE Replies(Tail(history))

\* C27: in the Llama chat window the status shows "Ready" only while no
\* request is in flight, and the replies appear in the chat history in the
\* order in which their messages were sent
C27_ReadyWhenIdle_RepliesInSendOrder ==
    /\ status_text = "Ready" => ~InFlight
    /\ \A i, j \in 1..Len(Replies(chat_history)) :
          i < j => Replies(chat_history)[i] < Replies(chat_history)[j]

\* the processes a module started that still run
RunningOf(m) == {p \in 1..Len(procs[m]) : Running(m, p)}

\* C26: in the welcome and custom_chat modules at most one window process
\* started by the module runs at any time; a step starts a process only when
\* the module started none before or the one it started last has ended, and
\* after unload no process the module started is left running
C26_AtMostOneWindow ==
    /\ [](\A m \in Modules : Cardinality(RunningOf(m)) <= 1)
    /\ [][\A m \in Modules :
            /\ Len(procs'[m]) > Len(procs[m]) =>
                  /\ RunningOf(m) = {}
                  /\ window_process[m] = 0 \/ ~Running(m, window_process[m])
                  /\ Len(procs'[m]) = Len(procs[m]) + 1
            /\ loaded[m] = "yes" /\ loaded'[m] = "unloaded" =>
                  /\ RunningOf(m)' = {}
                  /\ \A p \in RunningOf(m) : procs'[m][p] = "terminated"]_vars

\* a window was started again after the first one had been closed, and a
\* module was unloaded while its window was open
C26_Witness ==
    /\ \E m \in Modules :
          /\ Len(procs[m]) = 2
          /\ procs[m][1] = "exited"
          /\ procs[m][2] = "alive"
    /\ \E m \in Modules :
          /\ loaded[m] = "unloaded"
          /\ \E p \in 1..Len(procs[m]) : procs[m][p] = "terminated"

\* C28: once the welcome or the custom_chat module is unloaded, none of the
\* temporary directories its launches made is left, those of relaunches
\* after a window was closed included
C28_NoDirectoryLeftAfterUnload ==
    \A m \in Modules :
        loaded[m] = "unloaded" => \A d \in 1..Len(dirs[m]) : ~dirs[m][d]

====
